---- MODULE Spec2Model ----
(***************************************************************************)
(* Song Masher AI backend: the planner (planning.py), key detection        *)
(* (analysis.py), mastering (render.py) and the render-job orchestrator    *)
(* (tasks.py, main_simple.py), as state machines.                          *)
(*                                                                         *)
(* Numbers.  Python floats that are quotients of small integers are kept   *)
(* as exact reduced fractions [n, d]; every comparison the code makes on   *)
(* them is made on the fractions.  Linear gains and amplitudes of the      *)
(* mastering chain are kept as levels in centi-decibels, so a product of   *)
(* gains is a sum of levels.                                               *)
(***************************************************************************)
EXTENDS Integers, Sequences, FiniteSets, TLC

VARIABLES
    planReq,      \* the arguments of the create_plan call being answered
    planRes,      \* what that call returned or raised
    keyRes,       \* per track, what _analyze_key returned
    masterIn,     \* the mix handed to the last _master_audio call and the meter's state
    masterOut,    \* the audio that call returned
    jobStatus,    \* per job id, the status field of the Job record
    jobStems,     \* per job id, the stem names of the render request
    taskPc,       \* per job id, where its process_render_job task stands
    localStems,   \* per job id, the stems downloaded so far (local_stems)
    tmpFiles,     \* per job id, the temporary files created and not unlinked
    store,        \* the artifact store: per key, the job that wrote it last
    taskResult,   \* per job id, what process_render_job returned
    progressReply,\* the last response of GET /progress/{job_id}
    ioAttempts,   \* per job id, how often the task has called its current I/O operation
    structIn,     \* the peak times and duration of the last _analyze_structure call
    structRes,    \* the sections that call returned
    renderIn,     \* per render, the arguments of renderer.render and its environment
    renderPc,     \* per render, the stage of render() that runs next
    renderAudio,  \* per render, the audio the stages have produced so far
    renderLog,    \* per render, the stages that have run, in order
    renderFiles,  \* per render, the output files _save_output has created
    sepPc         \* per separation request, the number of stems uploaded

planVars == <<planReq, planRes>>

keyVars == <<keyRes>>

masterVars == <<masterIn, masterOut>>

jobVars == <<jobStatus, jobStems, taskPc, localStems, tmpFiles, store, taskResult,
             progressReply, ioAttempts>>

structVars == <<structIn, structRes>>

renderVars == <<renderIn, renderPc, renderAudio, renderLog, renderFiles>>

sepVars == <<sepPc>>

vars == <<planVars, keyVars, masterVars, jobVars, structVars, renderVars, sepVars>>

NoValue == "None"

(***************************************************************************)
(* Bounds of the model.                                                    *)
(***************************************************************************)
BpmStep == 20          \* tempos are multiples of BpmStep
MinBpmK == 3           \* slowest tempo MinBpmK * BpmStep = 60
MaxBpmK == 10          \* fastest tempo MaxBpmK * BpmStep = 200
DistScale == 10        \* fixed point of a feature distance: 1/DistScale

(***************************************************************************)
(* Arithmetic helpers.                                                     *)
(***************************************************************************)
abs(x) == IF x < 0 THEN -x ELSE x

min2(a, b) == IF b < a THEN b ELSE a

max2(a, b) == IF b > a THEN b ELSE a

RECURSIVE GCD(_, _)
GCD(a, b) == IF b = 0 THEN a ELSE GCD(b, a % b)

\* the float n / d, d > 0, as a reduced fraction
Frac(n, d) ==
    LET g == GCD(abs(n), d)
    IN  [n |-> n \div g, d |-> d \div g]

FracLess(a, b) == a.n * b.d < b.n * a.d

FracLeq(a, b) == a.n * b.d <= b.n * a.d

\* Python's max(a, b) and min(a, b) on floats: the first argument on a tie
FracMax(a, b) == IF FracLess(a, b) THEN b ELSE a

FracMin(a, b) == IF FracLess(b, a) THEN b ELSE a

RECURSIVE SqrtLoop(_, _)
SqrtLoop(x, r) == IF (r + 1) * (r + 1) > x THEN r ELSE SqrtLoop(x, r + 1)

\* floor of the square root
ISqrt(x) == SqrtLoop(x, 0)

Range(s) == {s[i] : i \in DOMAIN s}

(***************************************************************************)
(* planning.py: the Camelot wheel.                                         *)
(***************************************************************************)
\* insertion order of the camelot_keys dict, which is the iteration order
\* of self.key_compatibility.keys()
CamelotOrder ==
    << "1A", "2A", "3A", "4A", "5A", "6A", "7A", "8A", "9A", "10A", "11A", "12A",
       "1B", "2B", "3B", "4B", "5B", "6B", "7B", "8B", "9B", "10B", "11B", "12B" >>

camelot_keys ==
    ("1A" :> 0) @@ ("2A" :> 1) @@ ("3A" :> 2) @@ ("4A" :> 3) @@ ("5A" :> 4) @@
    ("6A" :> 5) @@ ("7A" :> 6) @@ ("8A" :> 7) @@ ("9A" :> 8) @@ ("10A" :> 9) @@
    ("11A" :> 10) @@ ("12A" :> 11) @@
    ("1B" :> 12) @@ ("2B" :> 13) @@ ("3B" :> 14) @@ ("4B" :> 15) @@ ("5B" :> 16) @@
    ("6B" :> 17) @@ ("7B" :> 18) @@ ("8B" :> 19) @@ ("9B" :> 20) @@ ("10B" :> 21) @@
    ("11B" :> 22) @@ ("12B" :> 23)

CamelotLabels == DOMAIN camelot_keys

\* a variant that measures along the list of labels, without wrapping round
WheelDistanceLinear(pos, other_pos) == abs(pos - other_pos)

\* distance on the wheel, as _build_key_compatibility computes it
WheelDistance(pos, other_pos) ==
    min2(abs(pos - other_pos), 24 - abs(pos - other_pos))

CompatScore(distance) ==
    IF distance = 0 THEN 0
    ELSE IF distance = 1 THEN 1
    ELSE IF distance = 2 THEN 2
    ELSE IF distance <= 4 THEN 3
    ELSE IF distance <= 6 THEN 4
    ELSE 5

\* self.key_compatibility[key][other_key]
key_compatibility ==
    [key \in CamelotLabels |->
        [other_key \in CamelotLabels |->
            CompatScore(WheelDistance(camelot_keys[key], camelot_keys[other_key]))]]

\* self.key_compatibility.get(a, {}).get(b, 5)
CompatGet(a, b) ==
    IF a \in CamelotLabels /\ b \in CamelotLabels THEN key_compatibility[a][b] ELSE 5

key_map ==
    ("C" :> "8B") @@ ("C#" :> "3B") @@ ("D" :> "10B") @@ ("D#" :> "5B") @@
    ("E" :> "12B") @@ ("F" :> "7B") @@ ("F#" :> "2B") @@ ("G" :> "9B") @@
    ("G#" :> "4B") @@ ("A" :> "11B") @@ ("A#" :> "6B") @@ ("B" :> "1B") @@
    ("Cm" :> "5A") @@ ("C#m" :> "12A") @@ ("Dm" :> "7A") @@ ("D#m" :> "2A") @@
    ("Em" :> "9A") @@ ("Fm" :> "4A") @@ ("F#m" :> "11A") @@ ("Gm" :> "6A") @@
    ("G#m" :> "1A") @@ ("Am" :> "8A") @@ ("A#m" :> "3A") @@ ("Bm" :> "10A")

_key_to_camelot(key) ==
    IF key \in DOMAIN key_map THEN key_map[key] ELSE "8B"

_calculate_key_shift(from_key, to_key) ==
    LET from_pos == IF from_key \in CamelotLabels THEN camelot_keys[from_key] ELSE 0
        to_pos   == IF to_key \in CamelotLabels THEN camelot_keys[to_key] ELSE 0
        shift    == (to_pos - from_pos) % 12
    IN  IF shift > 6 THEN shift - 12 ELSE shift

\* the loop of _choose_target_key over the targets from index i on;
\* best_key = NoValue stands for best_score = inf
RECURSIVE TargetLoop(_, _, _, _, _)
TargetLoop(i, camelotA, camelotB, best_key, best_score) ==
    IF i > Len(CamelotOrder) THEN best_key
    ELSE LET target      == CamelotOrder[i]
             scoreA      == CompatGet(target, camelotA)
             scoreB      == CompatGet(target, camelotB)
             total_score == scoreA + scoreB
         IN  IF best_key = NoValue \/ total_score < best_score
             THEN TargetLoop(i + 1, camelotA, camelotB, target, total_score)
             ELSE TargetLoop(i + 1, camelotA, camelotB, best_key, best_score)

_choose_target_key(keyA, keyB, recipe) ==
    LET camelotA == _key_to_camelot(keyA)
        camelotB == _key_to_camelot(keyB)
        best_key == TargetLoop(1, camelotA, camelotB, NoValue, 0)
    IN  [targetKey |-> best_key,
         shiftA    |-> _calculate_key_shift(camelotA, best_key),
         shiftB    |-> _calculate_key_shift(camelotB, best_key)]

(***************************************************************************)
(* planning.py: tempo alignment.                                           *)
(***************************************************************************)
HalfRatio == Frac(1, 2)         \* 0.5

DoubleRatio == Frac(2, 1)       \* 2.0

HighQualityLimit == Frac(3, 2)  \* 1.5

\* a variant that forgets the upper limit: max(0.5, stretch)
ClampStretchLowerOnly(stretch) == FracMax(HalfRatio, stretch)

\* max(0.5, min(2.0, stretch))
ClampStretch(stretch) == FracMax(HalfRatio, FracMin(DoubleRatio, stretch))

\* a variant that counts a stretch of exactly 1.5 as high quality
StretchQualityInclusive(stretchA, stretchB) ==
    IF FracLeq(FracMax(stretchA, stretchB), HighQualityLimit) THEN "high" ELSE "medium"

StretchQuality(stretchA, stretchB) ==
    IF FracLess(FracMax(stretchA, stretchB), HighQualityLimit) THEN "high" ELSE "medium"

\* a variant that takes the slower tempo as the target
_calculate_tempo_alignment_slower(bpmA, bpmB, beatsA, beatsB) ==
    LET target_bpm == IF bpmA < bpmB THEN bpmA ELSE bpmB
        stretchA   == ClampStretch(Frac(target_bpm, bpmA))
        stretchB   == ClampStretch(Frac(target_bpm, bpmB))
    IN  [targetBpm |-> target_bpm,
         stretchA  |-> stretchA,
         stretchB  |-> stretchB,
         quality   |-> StretchQuality(stretchA, stretchB)]

_calculate_tempo_alignment(bpmA, bpmB, beatsA, beatsB) ==
    LET target_bpm == IF bpmA > bpmB THEN bpmA ELSE bpmB
        stretchA   == ClampStretch(Frac(target_bpm, bpmA))
        stretchB   == ClampStretch(Frac(target_bpm, bpmB))
    IN  [targetBpm |-> target_bpm,
         stretchA  |-> stretchA,
         stretchB  |-> stretchB,
         quality   |-> StretchQuality(stretchA, stretchB)]

(***************************************************************************)
(* planning.py: compatibility scores.                                      *)
(***************************************************************************)
\* Counter(types)[t]
CountLabel(sections, t) == Cardinality({i \in DOMAIN sections : sections[i].label = t})

RECURSIVE SumOver(_, _)
SumOver(S, f) ==
    IF S = {} THEN 0
    ELSE LET x == CHOOSE y \in S : TRUE IN f[x] + SumOver(S \ {x}, f)

_assess_structure_compatibility(sectionsA, sectionsB) ==
    LET all_types    == {sectionsA[i].label : i \in DOMAIN sectionsA}
                            \cup {sectionsB[i].label : i \in DOMAIN sectionsB}
        intersection == SumOver(all_types,
                            [t \in all_types |->
                                min2(CountLabel(sectionsA, t), CountLabel(sectionsB, t))])
        union        == SumOver(all_types,
                            [t \in all_types |->
                                max2(CountLabel(sectionsA, t), CountLabel(sectionsB, t))])
    IN  IF union = 0 THEN 0
        ELSE LET similarity == Frac(intersection, union)
             IN  IF FracLeq(Frac(4, 5), similarity) THEN 0
                 ELSE IF FracLeq(Frac(3, 5), similarity) THEN 1
                 ELSE IF FracLeq(Frac(2, 5), similarity) THEN 2
                 ELSE 3

TempoScore(bpmA, bpmB) ==
    LET tempo_ratio == Frac(bpmA, bpmB)
        Within(lo, hi) == FracLeq(lo, tempo_ratio) /\ FracLeq(tempo_ratio, hi)
    IN  IF Within(Frac(4, 5), Frac(5, 4)) THEN 0
        ELSE IF Within(Frac(7, 10), Frac(7, 5)) THEN 1
        ELSE IF Within(Frac(3, 5), Frac(8, 5)) THEN 2
        ELSE 3

_analyze_compatibility(trackA, trackB) ==
    LET key_score       == CompatGet(trackA.camelot, trackB.camelot)
        tempo_score     == TempoScore(trackA.bpm, trackB.bpm)
        structure_score == _assess_structure_compatibility(trackA.sections, trackB.sections)
    IN  [keyScore       |-> key_score,
         tempoScore     |-> tempo_score,
         structureScore |-> structure_score,
         overallScore   |-> Frac(key_score + tempo_score + structure_score, 3)]

(***************************************************************************)
(* planning.py: section pairing by dynamic time warping.  A distance is    *)
(* the Euclidean distance of two feature vectors in units of 1/DistScale,  *)
(* rounded down; np.inf is Inf.                                            *)
(***************************************************************************)
Inf == -1

InfAdd(a, b) == IF a = Inf \/ b = Inf THEN Inf ELSE a + b

InfLeq(a, b) == b = Inf \/ (a # Inf /\ a <= b)

\* Python's min(a, b, c): the first of the smallest
InfMin3(a, b, c) ==
    LET ab == IF InfLeq(a, b) THEN a ELSE b
    IN  IF InfLeq(ab, c) THEN ab ELSE c

RECURSIVE SeqMax(_)
SeqMax(s) == IF Len(s) = 1 THEN s[1] ELSE max2(Head(s), SeqMax(Tail(s)))

SectionType(label) ==
    IF label = "verse" THEN 0
    ELSE IF label = "chorus" THEN 1
    ELSE IF label = "bridge" THEN 2
    ELSE 0

\* one row [duration, section_type, position] per section
_extract_section_features(sections, beats) ==
    [i \in DOMAIN sections |->
        [duration     |-> sections[i].end - sections[i].start,
         section_type |-> SectionType(sections[i].label),
         position     |-> IF beats # <<>> THEN Frac(sections[i].start, SeqMax(beats))
                          ELSE Frac(0, 1)]]

\* cdist(featuresA, featuresB, metric='euclidean')[i, j]
FeatureDistance(fa, fb) ==
    LET dd   == fa.duration - fb.duration
        dt   == fa.section_type - fb.section_type
        pn   == fa.position.n * fb.position.d - fb.position.n * fa.position.d
        pd   == fa.position.d * fb.position.d
        \* squared distance = (dd^2 + dt^2) + pn^2 / pd^2
        num  == (dd * dd + dt * dt) * pd * pd + pn * pn
    IN  ISqrt((num * DistScale * DistScale) \div (pd * pd))

\* the double loop filling dtw[i, j], row by row
RECURSIVE DtwFill(_, _, _, _, _, _)
DtwFill(i, j, m, n, distances, dtw) ==
    IF i > m THEN dtw
    ELSE IF j > n THEN DtwFill(i + 1, 1, m, n, distances, dtw)
    ELSE LET cell == InfAdd(distances[i][j],
                            InfMin3(dtw[<<i - 1, j>>], dtw[<<i, j - 1>>],
                                    dtw[<<i - 1, j - 1>>]))
         IN  DtwFill(i, j + 1, m, n, distances,
                     [dtw EXCEPT ![<<i, j>>] = cell])

\* dtw = zeros; dtw[0, 0] = 0; dtw[1:, 0] = inf; dtw[0, 1:] = inf
DtwInit(m, n) ==
    [c \in (0 .. m) \X (0 .. n) |->
        IF c[1] = 0 /\ c[2] = 0 THEN 0
        ELSE IF c[1] = 0 \/ c[2] = 0 THEN Inf
        ELSE 0]

\* a variant that returns the alignment as the backtracking loop collected
\* it, last pair first
NotReversed(s) == s

Reversed(s) == [k \in 1 .. Len(s) |-> s[Len(s) + 1 - k]]

\* the backtracking loop; alignment holds 0-based index pairs
RECURSIVE Backtrack(_, _, _, _)
Backtrack(i, j, dtw, alignment) ==
    IF ~(i > 0 /\ j > 0) THEN alignment
    ELSE LET appended == Append(alignment, <<i - 1, j - 1>>)
         IN  IF InfLeq(dtw[<<i - 1, j>>], dtw[<<i, j - 1>>])
                /\ InfLeq(dtw[<<i - 1, j>>], dtw[<<i - 1, j - 1>>])
             THEN Backtrack(i - 1, j, dtw, appended)
             ELSE IF InfLeq(dtw[<<i, j - 1>>], dtw[<<i - 1, j - 1>>])
             THEN Backtrack(i, j - 1, dtw, appended)
             ELSE Backtrack(i - 1, j - 1, dtw, appended)

\* distances is an m x n matrix, m >= 1 and n >= 1
DtwOnMatrix(distances) ==
    LET m   == Len(distances)
        n   == Len(distances[1])
        dtw == DtwFill(1, 1, m, n, distances, DtwInit(m, n))
    IN  Reversed(Backtrack(m, n, dtw, <<>>))

_dtw_align(featuresA, featuresB) ==
    DtwOnMatrix([i \in DOMAIN featuresA |->
                    [j \in DOMAIN featuresB |->
                        FeatureDistance(featuresA[i], featuresB[j])]])

Confidence == Frac(4, 5)   \* 0.8

\* np.array([]) of no sections is one-dimensional and cdist rejects it
PairingRaises(sectionsA, sectionsB) == sectionsA = <<>> \/ sectionsB = <<>>

_pair_sections(sectionsA, sectionsB, beatsA, beatsB) ==
    LET featuresA == _extract_section_features(sectionsA, beatsA)
        featuresB == _extract_section_features(sectionsB, beatsB)
        alignment == _dtw_align(featuresA, featuresB)
        kept      == SelectSeq([i \in DOMAIN alignment |-> <<i, alignment[i]>>],
                         LAMBDA e : e[2][1] < Len(sectionsA) /\ e[2][2] < Len(sectionsB))
    IN  [k \in DOMAIN kept |->
            [sectionA   |-> sectionsA[kept[k][2][1] + 1],
             sectionB   |-> sectionsB[kept[k][2][2] + 1],
             alignment  |-> kept[k][1] - 1,
             confidence |-> Confidence]]

(***************************************************************************)
(* planning.py: quality hints and create_plan.                             *)
(***************************************************************************)
KeyAdjustHint == "Consider key adjustment for better harmony"

\* a variant whose key hint still says "Good" at a key score of 3
_assess_quality_lenient(compatibility, stretch_map, section_pairs) ==
    << IF compatibility.keyScore <= 1 THEN "Excellent key compatibility"
       ELSE IF compatibility.keyScore <= 3 THEN "Good key compatibility"
       ELSE KeyAdjustHint,
       IF compatibility.tempoScore <= 1 THEN "Tempo alignment looks good"
       ELSE "Significant tempo adjustment needed",
       IF stretch_map.quality = "high" THEN "Minimal tempo stretching required"
       ELSE "Moderate tempo stretching - check audio quality",
       IF Len(section_pairs) >= 3 THEN "Good structural alignment found"
       ELSE "Limited structural overlap - consider manual alignment" >>

_assess_quality(compatibility, stretch_map, section_pairs) ==
    << IF compatibility.keyScore <= 1 THEN "Excellent key compatibility"
       ELSE IF compatibility.keyScore <= 2 THEN "Good key compatibility"
       ELSE KeyAdjustHint,
       IF compatibility.tempoScore <= 1 THEN "Tempo alignment looks good"
       ELSE "Significant tempo adjustment needed",
       IF stretch_map.quality = "high" THEN "Minimal tempo stretching required"
       ELSE "Moderate tempo stretching - check audio quality",
       IF Len(section_pairs) >= 3 THEN "Good structural alignment found"
       ELSE "Limited structural overlap - consider manual alignment" >>

\* a variant of the recipe table that lacks HybridDrums
recipes_without_hybrid == {"AoverB", "BoverA"}

\* the keys of self.recipes
recipes == {"AoverB", "BoverA", "HybridDrums"}

\* what create_plan returns, or the exception it raises
create_plan(trackA, trackB, recipe) ==
    IF recipe \notin recipes
    THEN [status |-> "raised", exc |-> "ValueError",
          msg |-> "Unknown recipe: " \o recipe]
    ELSE IF PairingRaises(trackA.sections, trackB.sections)
    THEN [status |-> "raised", exc |-> "ValueError",
          msg |-> "XA must be a 2-dimensional array."]
    ELSE LET compatibility == _analyze_compatibility(trackA, trackB)
             chosen        == _choose_target_key(trackA.key, trackB.key, recipe)
             stretch_map   == _calculate_tempo_alignment(trackA.bpm, trackB.bpm,
                                                         trackA.beats, trackB.beats)
             section_pairs == _pair_sections(trackA.sections, trackB.sections,
                                             trackA.beats, trackB.beats)
             quality_hints == _assess_quality(compatibility, stretch_map, section_pairs)
         IN  [status        |-> "returned",
              targetKey     |-> chosen.targetKey,
              keyShiftA     |-> chosen.shiftA,
              keyShiftB     |-> chosen.shiftB,
              stretchMap    |-> stretch_map,
              sectionPairs  |-> section_pairs,
              qualityHints  |-> quality_hints,
              recipe        |-> recipe,
              compatibility |-> compatibility]

(***************************************************************************)
(* The track analyses and recipes handed to create_plan.                   *)
(***************************************************************************)
Section(s, e, l) == [start |-> s, end |-> e, label |-> l]

OneSection == << Section(0, 12, "verse") >>

TwoSections == << Section(0, 6, "chorus"), Section(6, 12, "verse") >>

ThreeSections ==
    << Section(0, 3, "chorus"), Section(3, 8, "verse"), Section(8, 12, "bridge") >>

\* two sections of the same label and duration
TwoVerses == << Section(0, 6, "verse"), Section(6, 12, "verse") >>

SomeBeats == << 0, 4, 8, 12 >>

\* (sections, beats) of an analysis
TrackShapes ==
    { <<OneSection, SomeBeats>>, <<TwoSections, <<>> >>,
      <<ThreeSections, SomeBeats>>, << <<>>, SomeBeats>>,
      <<TwoVerses, <<>> >> }

Track(key, camelot, bpm, shape) ==
    [key |-> key, camelot |-> camelot, bpm |-> bpm,
     sections |-> shape[1], beats |-> shape[2]]

TableKeys == DOMAIN key_map

Bpms == {k * BpmStep : k \in MinBpmK .. MaxBpmK}

DefaultBpm == 6 * BpmStep

\* every table key at one tempo; one key at every tempo and shape; and two
\* analyses whose key is spelled as _analyze_key spells it
Tracks ==
    {Track(k, key_map[k], DefaultBpm, <<OneSection, SomeBeats>>) : k \in TableKeys}
    \cup {Track("C", "8B", b, sh) : b \in Bpms, sh \in TrackShapes}
    \cup {Track("CM", "8B", DefaultBpm, <<OneSection, SomeBeats>>),
          Track("AM", "2B", DefaultBpm, <<TwoSections, <<>> >>)}

\* the recipe strings a request may carry: the three known ones and two others
RecipeInputs == {"AoverB", "BoverA", "HybridDrums", "Remix", ""}

(***************************************************************************)
(* analysis.py: _analyze_key.  The chroma correlation picks one of the 24  *)
(* (mode, root) candidates; what is modelled is everything the method      *)
(* does with the candidate it picked.                                      *)
(***************************************************************************)
keys == << "C", "C#", "D", "D#", "E", "F", "F#", "G", "G#", "A", "A#", "B" >>

modes == {"major", "minor"}

camelot_map ==
    ("C" :> "8B") @@ ("C#" :> "3B") @@ ("D" :> "10B") @@ ("D#" :> "5B") @@
    ("E" :> "12B") @@ ("F" :> "7B") @@ ("F#" :> "2B") @@ ("G" :> "9B") @@
    ("G#" :> "4B") @@ ("A" :> "11B") @@ ("A#" :> "6B") @@ ("B" :> "1B")

minor_to_major ==
    ("C" :> "A") @@ ("C#" :> "A#") @@ ("D" :> "B") @@ ("D#" :> "C") @@
    ("E" :> "C#") @@ ("F" :> "D") @@ ("F#" :> "D#") @@ ("G" :> "E") @@
    ("G#" :> "F") @@ ("A" :> "F#") @@ ("A#" :> "G") @@ ("B" :> "G#")

\* str.upper() on one lower-case letter
upper(c) ==
    LET table == ("a" :> "A") @@ ("i" :> "I") @@ ("j" :> "J") @@ ("m" :> "M") @@
                 ("n" :> "N") @@ ("o" :> "O") @@ ("r" :> "R")
    IN  IF c \in DOMAIN table THEN table[c] ELSE c

\* f"{best_key}{best_mode[0].upper()}"
KeyString(best_mode, best_key) == best_key \o upper(SubSeq(best_mode, 1, 1))

KeyCamelot(best_mode, best_key) ==
    IF best_mode = "minor" THEN camelot_map[minor_to_major[best_key]]
    ELSE camelot_map[best_key]

\* the (key, camelot) pair _analyze_key returns for the best candidate
_analyze_key(best_mode, best_key) ==
    [status  |-> "returned",
     mode    |-> best_mode,
     root    |-> best_key,
     key     |-> KeyString(best_mode, best_key),
     camelot |-> KeyCamelot(best_mode, best_key)]

TrackNames == {"A", "B"}

NoResult == [status |-> "none"]

\* POST /plan: one call of planner.create_plan; the planner keeps no state
\* between calls, so a call starts from the idle state
PlanMashup ==
    /\ planReq = NoResult
    /\ \E trackA \in Tracks, trackB \in Tracks, recipe \in RecipeInputs :
        /\ planReq' = [status |-> "called", trackA |-> trackA, trackB |-> trackB,
                       recipe |-> recipe]
        /\ planRes' = create_plan(trackA, trackB, recipe)
    /\ UNCHANGED <<keyVars, masterVars, jobVars, structVars, renderVars, sepVars>>

\* the response (PlanResponse, or HTTP 400 for an exception) has been sent
PlanRespond ==
    /\ planReq # NoResult
    /\ planReq' = NoResult
    /\ planRes' = NoResult
    /\ UNCHANGED <<keyVars, masterVars, jobVars, structVars, renderVars, sepVars>>

\* analyzer.analyze on the upload for track t, as far as the key goes
AnalyzeKey(t) ==
    /\ \E best_mode \in modes, i \in DOMAIN keys :
        keyRes' = [keyRes EXCEPT ![t] = _analyze_key(best_mode, keys[i])]
    /\ UNCHANGED <<planVars, masterVars, jobVars, structVars, renderVars, sepVars>>

(***************************************************************************)
(* render.py: mastering.  A signal is known by three levels in centi-dB:   *)
(* its peak 20*log10(max|y|), its RMS 20*log10(rms) and its integrated     *)
(* loudness.  Every step of _master_audio multiplies the whole array by    *)
(* one gain, which adds the gain's level to all three.  Silence has the    *)
(* level NegInf.  An array holding inf or nan is "nonfinite".              *)
(***************************************************************************)
NegInf == -99999

TargetLufs == -1400        \* self.target_lufs = -14.0

HeadroomCb == 100          \* self.headroom_db = 1.0

ClipLevel == -9            \* 0.99 = 10 ** (-0.0873 / 20)

TargetRmsLevel == -2000    \* target_rms = 0.1

GateLevel == -7000         \* the meter's absolute gate, -70 LUFS

PeakStep == 1100           \* spacing of the input peak levels

MaxPeakK == 6              \* number of input peak levels below the loudest

CrestStep == 700           \* spacing of the input crest factors

MaxCrestK == 4             \* largest input crest factor, in CrestStep

\* audio * gain
Scale(audio, gain) ==
    IF audio.kind # "pcm" THEN audio
    ELSE [kind |-> "pcm",
          peak |-> IF audio.peak = NegInf THEN NegInf ELSE audio.peak + gain,
          rms  |-> IF audio.rms = NegInf THEN NegInf ELSE audio.rms + gain,
          lufs |-> IF audio.lufs = NegInf THEN NegInf ELSE audio.lufs + gain]

Nonfinite == [kind |-> "nonfinite", peak |-> 0, rms |-> 0, lufs |-> 0]

\* if np.max(np.abs(audio)) > 0.99: audio = audio / np.max(np.abs(audio)) * 0.99
ClipGuard(audio) ==
    IF audio.kind = "pcm" /\ audio.peak > ClipLevel
    THEN Scale(audio, ClipLevel - audio.peak)
    ELSE audio

\* meter.integrated_loudness(audio): -inf when nothing passes the gate
integrated_loudness(audio) ==
    IF audio.lufs = NegInf \/ audio.lufs < GateLevel THEN NegInf ELSE audio.lufs

_normalize_rms(audio) ==
    IF audio.rms # NegInf
    THEN Scale(audio, TargetRmsLevel - audio.rms)
    ELSE audio

\* meter is "ok" or "raises" (pyloudnorm raised inside the try block)
_normalize_lufs(audio, meter) ==
    IF meter = "raises" THEN _normalize_rms(audio)
    ELSE LET current_lufs == integrated_loudness(audio)
         IN  IF current_lufs = NegInf
             THEN Nonfinite      \* gain_linear = inf; 0 * inf = nan, inf / inf = nan
             ELSE ClipGuard(Scale(audio, TargetLufs - current_lufs))

\* audio *= headroom_factor
ApplyHeadroom(audio) == Scale(audio, -HeadroomCb)

\* meter is "unavailable" when PYLN_AVAILABLE is False
_master_audio(audio, meter) ==
    LET guarded    == ClipGuard(audio)
        normalized == IF meter # "unavailable" THEN _normalize_lufs(guarded, meter)
                      ELSE _normalize_rms(guarded)
    IN  ApplyHeadroom(normalized)

MeterStates == {"ok", "raises", "unavailable"}

Silence == [kind |-> "pcm", peak |-> NegInf, rms |-> NegInf, lufs |-> NegInf]

LoudestPeak == 600         \* a mix of four stems may peak above full scale

PeakLevels == {LoudestPeak - PeakStep * k : k \in 0 .. MaxPeakK}

CrestFactors == {CrestStep * k : k \in 0 .. MaxCrestK}

\* integrated loudness minus RMS level: the K-weighting of the spectrum
WeightingOffsets == {-400, 0, 300}

Mixes ==
    {Silence} \cup
    {[kind |-> "pcm", peak |-> p, rms |-> p - c, lufs |-> p - c + w] :
        p \in PeakLevels, c \in CrestFactors, w \in WeightingOffsets}

\* stage 4 of render: one call of _master_audio
MasterAudio ==
    /\ masterIn = NoResult
    /\ \E audio \in Mixes, meter \in MeterStates :
        /\ masterIn' = [status |-> "called", audio |-> audio, meter |-> meter]
        /\ masterOut' = _master_audio(audio, meter)
    /\ UNCHANGED <<planVars, keyVars, jobVars, structVars, renderVars, sepVars>>

\* the mastered audio has been handed to _save_output
MasterReturn ==
    /\ masterIn # NoResult
    /\ masterIn' = NoResult
    /\ masterOut' = NoResult
    /\ UNCHANGED <<planVars, keyVars, jobVars, structVars, renderVars, sepVars>>

(***************************************************************************)
(* tasks.py, main_simple.py: render jobs.  process_render_job is one       *)
(* action per awaited call, plus the synchronous render in between.        *)
(***************************************************************************)
MaxJobs == 2

JobIds == {"job" \o ToString(i) : i \in 1 .. MaxJobs}

\* the order in which a request names its stems
StemOrder == << "vocals", "drums", "bass", "other" >>

KnownStems == Range(StemOrder)

\* the stems of a render request: all four, or only the first two
StemInputs == { StemOrder, SubSeq(StemOrder, 1, 2) }

MashupKey(job_id) == "mashups/" \o job_id \o ".wav"

ProjectKey(job_id) == "projects/" \o job_id \o ".json"

\* the key separate_stems uploads a stem under
StemKey(stem_name) == "stems/" \o stem_name

StoreKeys ==
    {MashupKey(j) : j \in JobIds} \cup {ProjectKey(j) : j \in JobIds}
        \cup {StemKey(StemOrder[i]) : i \in DOMAIN StemOrder}

Absent == "absent"

\* storage.upload_file returns the URL of the key
UrlOf(key) == "file://storage/" \o key

\* the temporary files of a job, by what they hold
StemFile(name) == "stem:" \o name

TransformedFile(name) == "transformed:" \o name

OutputFile == "output"

ProjectJsonFile == "project_json"

\* POST /render: Job(status="queued", ...) and background_tasks.add_task
render_mashup(j) ==
    /\ taskPc[j] = "none"
    /\ \E stems \in StemInputs : jobStems' = [jobStems EXCEPT ![j] = stems]
    /\ jobStatus' = [jobStatus EXCEPT ![j] = "queued"]
    /\ taskPc' = [taskPc EXCEPT ![j] = "pending"]
    /\ UNCHANGED <<localStems, tmpFiles, store, taskResult, progressReply, ioAttempts>>
    /\ UNCHANGED <<planVars, keyVars, masterVars, structVars, renderVars, sepVars>>

\* GET /progress/{job_id}: the same answer for every job id
get_progress(j) ==
    /\ progressReply' = [jobId |-> j, status |-> "processing"]
    /\ UNCHANGED <<jobStatus, jobStems, taskPc, localStems, tmpFiles, store, taskResult,
                   ioAttempts>>
    /\ UNCHANGED <<planVars, keyVars, masterVars, structVars, renderVars, sepVars>>

\* a variant without the except branch: the exception leaves
\* process_render_job and no result is returned
FailJobPropagates(j, e) ==
    /\ taskPc' = [taskPc EXCEPT ![j] = "raised"]
    /\ UNCHANGED taskResult

\* the except branch of process_render_job: the failed result is returned
\* and nothing else is touched
FailJob(j, e) ==
    /\ taskResult' = [taskResult EXCEPT
                        ![j] = [job_id |-> j, status |-> "failed", error |-> e]]
    /\ taskPc' = [taskPc EXCEPT ![j] = "done"]

AfterDownload(j, n) == IF n = Len(jobStems[j]) THEN "render" ELSE "download"

\* the task starts: print(f"Starting render job {job_id}"); no Job is updated
StartJob(j) ==
    /\ taskPc[j] = "pending"
    /\ taskPc' = [taskPc EXCEPT ![j] = AfterDownload(j, 0)]
    /\ UNCHANGED <<jobStatus, jobStems, localStems, tmpFiles, store, taskResult,
                   progressReply, ioAttempts>>
    /\ UNCHANGED <<planVars, keyVars, masterVars, structVars, renderVars, sepVars>>

\* await _download_stem(stem_url, stem_name) for the next stem, called once;
\* the temporary file exists before sf.write can raise
DownloadStem(j) ==
    /\ taskPc[j] = "download"
    /\ LET name == jobStems[j][Len(localStems[j]) + 1]
       IN  /\ tmpFiles' = [tmpFiles EXCEPT ![j] = @ \cup {StemFile(name)}]
           /\ \/ /\ localStems' = [localStems EXCEPT ![j] = Append(@, name)]
                 /\ taskPc' = [taskPc EXCEPT
                                 ![j] = AfterDownload(j, Len(localStems[j]) + 1)]
                 /\ UNCHANGED taskResult
              \/ /\ FailJob(j, "download")
                 /\ UNCHANGED localStems
    /\ ioAttempts' = [ioAttempts EXCEPT ![j] = 1]
    /\ UNCHANGED <<jobStatus, jobStems, store, progressReply>>
    /\ UNCHANGED <<planVars, keyVars, masterVars, structVars, renderVars, sepVars>>

\* the stems _apply_transforms writes a transformed file for, in order
TransformedStems(j) == SelectSeq(localStems[j], LAMBDA name : name \in KnownStems)

\* renderer.render and renderer.create_project_json: the render either
\* returns the output path or raises RuntimeError after it has written the
\* transformed files of the first k stems, and (k = all) maybe the output file
RenderJob(j) ==
    /\ taskPc[j] = "render"
    /\ LET stems == TransformedStems(j)
           Written(k) == {TransformedFile(stems[i]) : i \in 1 .. k}
       IN  \/ /\ tmpFiles' = [tmpFiles EXCEPT
                                ![j] = @ \cup Written(Len(stems)) \cup {OutputFile}]
              /\ taskPc' = [taskPc EXCEPT ![j] = "upload_mashup"]
              /\ UNCHANGED taskResult
           \/ \E k \in 0 .. Len(stems), saved \in BOOLEAN :
                 /\ saved => k = Len(stems)
                 /\ tmpFiles' = [tmpFiles EXCEPT
                                   ![j] = @ \cup Written(k)
                                            \cup (IF saved THEN {OutputFile} ELSE {})]
                 /\ FailJob(j, "render")
    /\ UNCHANGED <<jobStatus, jobStems, localStems, store, progressReply, ioAttempts>>
    /\ UNCHANGED <<planVars, keyVars, masterVars, structVars, renderVars, sepVars>>

\* await storage.upload_file(output_path, f"mashups/{job_id}.wav")
UploadMashup(j) ==
    /\ taskPc[j] = "upload_mashup"
    /\ \/ /\ store' = [store EXCEPT ![MashupKey(j)] = j]
          /\ taskPc' = [taskPc EXCEPT ![j] = "save_project_json"]
          /\ UNCHANGED taskResult
       \/ /\ FailJob(j, "upload_mashup")
          /\ UNCHANGED store
    /\ ioAttempts' = [ioAttempts EXCEPT ![j] = 1]
    /\ UNCHANGED <<jobStatus, jobStems, localStems, tmpFiles, progressReply>>
    /\ UNCHANGED <<planVars, keyVars, masterVars, structVars, renderVars, sepVars>>

\* await _save_project_json(project_json, job_id); the temporary file exists
\* before json.dump can raise
SaveProjectJson(j) ==
    /\ taskPc[j] = "save_project_json"
    /\ tmpFiles' = [tmpFiles EXCEPT ![j] = @ \cup {ProjectJsonFile}]
    /\ \/ /\ taskPc' = [taskPc EXCEPT ![j] = "upload_project"]
          /\ UNCHANGED taskResult
       \/ FailJob(j, "save_project_json")
    /\ UNCHANGED <<jobStatus, jobStems, localStems, store, progressReply, ioAttempts>>
    /\ UNCHANGED <<planVars, keyVars, masterVars, structVars, renderVars, sepVars>>

\* [output_path, project_json_path] + list(local_stems.values())
CleanupList(j) ==
    {OutputFile, ProjectJsonFile}
        \cup {StemFile(localStems[j][i]) : i \in DOMAIN localStems[j]}

\* the files os.unlink may fail on: _cleanup_files catches the exception,
\* prints it and goes on to the next file.  At most one failure is followed.
UnlinkFailures(j) == {{}} \cup {{f} : f \in CleanupList(j)}

\* _cleanup_files(file_paths) where os.unlink raised for the files in kept
CleanedUp(j, kept) == (tmpFiles[j] \ CleanupList(j)) \cup kept

\* a variant that builds the completed result before the descriptor upload
\* and so reports completed whether or not the upload went through
UploadProjectReportsEarly(j) ==
    /\ taskPc[j] = "upload_project"
    /\ \/ store' = [store EXCEPT ![ProjectKey(j)] = j]
       \/ UNCHANGED store
    /\ \E kept \in UnlinkFailures(j) :
          tmpFiles' = [tmpFiles EXCEPT ![j] = CleanedUp(j, kept)]
    /\ taskResult' = [taskResult EXCEPT
                        ![j] = [job_id           |-> j,
                                status           |-> "completed",
                                mashup_url       |-> UrlOf(MashupKey(j)),
                                project_json_url |-> UrlOf(ProjectKey(j))]]
    /\ taskPc' = [taskPc EXCEPT ![j] = "done"]
    /\ ioAttempts' = [ioAttempts EXCEPT ![j] = 1]
    /\ UNCHANGED <<jobStatus, jobStems, localStems, progressReply>>
    /\ UNCHANGED <<planVars, keyVars, masterVars, structVars, renderVars, sepVars>>

\* await storage.upload_file(project_json_path, f"projects/{job_id}.json"),
\* then the clean-up and the completed result
UploadProject(j) ==
    /\ taskPc[j] = "upload_project"
    /\ \/ /\ store' = [store EXCEPT ![ProjectKey(j)] = j]
          /\ \E kept \in UnlinkFailures(j) :
                tmpFiles' = [tmpFiles EXCEPT ![j] = CleanedUp(j, kept)]
          /\ taskResult' = [taskResult EXCEPT
                              ![j] = [job_id           |-> j,
                                      status           |-> "completed",
                                      mashup_url       |-> UrlOf(MashupKey(j)),
                                      project_json_url |-> UrlOf(ProjectKey(j))]]
          /\ taskPc' = [taskPc EXCEPT ![j] = "done"]
       \/ /\ FailJob(j, "upload_project")
          /\ UNCHANGED <<store, tmpFiles>>
    /\ ioAttempts' = [ioAttempts EXCEPT ![j] = 1]
    /\ UNCHANGED <<jobStatus, jobStems, localStems, progressReply>>
    /\ UNCHANGED <<planVars, keyVars, masterVars, structVars, renderVars, sepVars>>

(***************************************************************************)
(* analysis.py: structure analysis.  The peaks of the novelty curve, as    *)
(* times, and the duration len(y) / sr are whole numbers of one time unit. *)
(***************************************************************************)
MaxTime == 6           \* times and durations are 1 .. MaxTime

MaxPeaks == 3          \* at most MaxPeaks peaks are found

\* the label of the section of index i, counted from 0
SectionLabel(i) ==
    IF i % 4 = 0 THEN "chorus"
    ELSE IF i % 4 = 1 THEN "verse"
    ELSE IF i % 4 = 2 THEN "bridge"
    ELSE "verse"

\* start_time of the section of index i, counted from 1
SectionStart(times, i) == IF i = 1 THEN 0 ELSE times[i - 1]

\* a variant that ends every section, the last one too, at its own peak
SectionEndAtPeak(times, duration, i) == times[i]

\* end_time of the section of index i, counted from 1
SectionEnd(times, duration, i) == IF i = Len(times) THEN duration ELSE times[i]

\* the loop over enumerate(times) of _analyze_structure
_analyze_structure(times, duration) ==
    [i \in 1 .. Len(times) |->
        [start |-> SectionStart(times, i),
         end   |-> SectionEnd(times, duration, i),
         label |-> SectionLabel(i - 1)]]

\* the elements of a set of times in increasing order
Ascending(S) ==
    CHOOSE s \in [1 .. Cardinality(S) -> S] :
        \A i, k \in 1 .. Cardinality(S) : i < k => s[i] < s[k]

\* what find_peaks and frames_to_time return: strictly increasing times,
\* none at time 0, possibly none at all
PeakTimes == {Ascending(S) : S \in {T \in SUBSET (1 .. MaxTime) : Cardinality(T) <= MaxPeaks}}

Durations == 1 .. MaxTime

AnalyzeStructure ==
    /\ structIn = NoResult
    /\ \E times \in PeakTimes, duration \in Durations :
        /\ structIn' = [status |-> "called", times |-> times, duration |-> duration]
        /\ structRes' = [status |-> "returned",
                         sections |-> _analyze_structure(times, duration)]
    /\ UNCHANGED <<planVars, keyVars, masterVars, jobVars, renderVars, sepVars>>

\* the sections have been put into the analysis result
StructureReturn ==
    /\ structIn # NoResult
    /\ structIn' = NoResult
    /\ structRes' = NoResult
    /\ UNCHANGED <<planVars, keyVars, masterVars, jobVars, renderVars, sepVars>>

\* the render of a job and the render made again from its project descriptor
RenderIds == {"first", "again"}

(***************************************************************************)
(* render.py: the stages of render().  Audio is known by how it was made:  *)
(* the stems mixed, each with its transform and gain, and the effects      *)
(* applied, in order.  Two audio values are equal exactly when they were   *)
(* made the same way from the same stems.                                  *)
(***************************************************************************)
\* self.sr
SampleRate == 44100

\* mix_params.get(key, default)
MixGet(mix_params, key, default) ==
    IF key \in DOMAIN mix_params THEN mix_params[key] ELSE default

\* a variant that masters before the mixing effects
StageOrderMasterEarly ==
    << "transform", "mix", "master", "auto_eq", "sidechain_ducking", "de_esser", "save" >>

\* the stages of a render, in the order render() calls them
StageOrder ==
    << "transform", "mix", "auto_eq", "sidechain_ducking", "de_esser", "master", "save" >>

StageIndex(stage) == CHOOSE i \in DOMAIN StageOrder : StageOrder[i] = stage

\* the length of every stem file handed to render(), in blocks of samples
StemLength == 6

\* rubberband --tempo X plays X times as fast: the output has 1/X of the
\* length of the input; shutil.copy2 keeps the length
_rubber_band_transform(length, stretch_ratio, delivered) ==
    IF delivered THEN (length * stretch_ratio.d) \div stretch_ratio.n
    ELSE length

\* track = "A" if stem_name in ["vocals"] else "B"
TrackOf(stem_name, plan) == IF stem_name = "vocals" THEN "A" ELSE "B"

\* one pass of the loop of _apply_transforms: the stem after
\* _rubber_band_transform, which copies the input when rubberband exits
\* non-zero or is not installed
TransformedStem(stem_name, plan, fallback) ==
    LET track == TrackOf(stem_name, plan)
        stretch_ratio == IF track = "A" THEN plan.stretchMap.stretchA
                         ELSE plan.stretchMap.stretchB
    IN  [name   |-> stem_name,
         method |-> IF stem_name \in fallback THEN "copy" ELSE "rubberband",
         tempo  |-> stretch_ratio,
         pitch  |-> IF track = "A" THEN plan.keyShiftA ELSE plan.keyShiftB,
         length |-> _rubber_band_transform(StemLength, stretch_ratio,
                                           stem_name \notin fallback)]

\* stems is the set of names of the stems dict; fallback the stems for which
\* rubberband did not deliver
_apply_transforms(stems, plan, fallback) ==
    {TransformedStem(stem_name, plan, fallback) : stem_name \in stems \cap KnownStems}

\* the default gains of a recipe, in tenths
DefaultGain(recipe, stem_name) ==
    IF recipe = "HybridDrums"
    THEN CASE stem_name = "vocals" -> 10 [] stem_name = "drums" -> 9
           [] stem_name = "bass" -> 8 [] OTHER -> 7
    ELSE CASE stem_name = "vocals" -> 10 [] stem_name = "drums" -> 8
           [] stem_name = "bass" -> 7 [] OTHER -> 6

\* max_length = max(max_length, len(audio)) over the stems
max_length(transformed) ==
    IF transformed = {} THEN 0
    ELSE CHOOSE l \in {t.length : t \in transformed} :
             \A t \in transformed : t.length <= l

\* mix += stem_audios[name] * gain adds in place into np.zeros(max_length): a
\* stem of another length cannot be broadcast and numpy raises ValueError
MixBroadcastFails(transformed, plan) ==
    /\ plan.recipe \in {"AoverB", "BoverA", "HybridDrums"}
    /\ \E t \in transformed : t.length # max_length(transformed)

\* mix = np.zeros(max_length), then the stems of a known recipe are added;
\* another recipe leaves the zeros
_mix_stems(transformed, plan, mix_params) ==
    [status  |-> "audio",
     samples |-> IF transformed = {} THEN "none" ELSE "some",
     length  |-> max_length(transformed),
     parts   |-> IF plan.recipe \in {"AoverB", "BoverA", "HybridDrums"}
                 THEN {[stem |-> t,
                        gain |-> MixGet(mix_params, t.name \o "_gain",
                                        DefaultGain(plan.recipe, t.name))] :
                            t \in transformed}
                 ELSE {},
     effects |-> << >>]

\* one more effect on the audio
Processed(audio, effect) == [audio EXCEPT !.effects = Append(@, effect)]

\* what a stem of the mix has become in the audio: the effects filter the
\* whole array (signal.filtfilt(b, a, audio)), the sum of all the stems, so
\* each of them has passed through every effect
Contribution(audio, stem_name) ==
    [parts   |-> {p \in audio.parts : p.stem.name = stem_name},
     effects |-> audio.effects]

\* the path _master_audio takes
MasterPath(meter) == IF meter = "ok" THEN "lufs" ELSE "rms"

\* create_project_json(plan, mix_params)
create_project_json(plan, mix_params) ==
    [version   |-> "1.0.0",
     plan      |-> plan,
     mixParams |-> mix_params,
     settings  |-> [sampleRate |-> SampleRate,
                    targetLUFS |-> TargetLufs,
                    headroomDB |-> HeadroomCb],
     timestamp |-> "2024-01-01T00:00:00Z"]

\* the stems dict of a render: all four stems, two of them, or none
RenderStems == { KnownStems, {"vocals", "drums"}, {} }

RenderPlans ==
    { [recipe |-> "AoverB", keyShiftA |-> 0, keyShiftB |-> 0,
       stretchMap |-> [stretchA |-> Frac(1, 1), stretchB |-> Frac(1, 1)]],
      [recipe |-> "BoverA", keyShiftA |-> 1, keyShiftB |-> -1,
       stretchMap |-> [stretchA |-> Frac(1, 1), stretchB |-> Frac(1, 1)]],
      [recipe |-> "HybridDrums", keyShiftA |-> -2, keyShiftB |-> 0,
       stretchMap |-> [stretchA |-> Frac(3, 2), stretchB |-> Frac(1, 1)]] }

\* mix parameters: the defaults but for one gain, and with effects turned off
RenderMixParams ==
    { [vocals_gain |-> 10],
      [vocals_gain |-> 10, auto_eq |-> FALSE],
      [vocals_gain |-> 10, auto_eq |-> FALSE, sidechain_ducking |-> FALSE,
       de_esser |-> FALSE] }

NextStage(stage) == StageOrder[StageIndex(stage) + 1]

\* except Exception as e: raise RuntimeError(f"Rendering failed: {str(e)}")
\* cause is the class of the exception that was caught
RenderRaiseFrom(r, stage, cause) ==
    /\ renderPc' = [renderPc EXCEPT ![r] = "raised"]
    /\ renderAudio' = [renderAudio EXCEPT
                         ![r] = [status |-> "raised", exc |-> "RuntimeError",
                                 msg |-> "Rendering failed: " \o stage,
                                 cause |-> cause]]

RenderRaise(r, stage) == RenderRaiseFrom(r, stage, "Exception")

\* the stage starts
StageRuns(r, stage) == renderLog' = [renderLog EXCEPT ![r] = Append(@, stage)]

\* renderer.render(stems, plan, mix_params) is called.  The render "again" is
\* made from the project descriptor of the render "first", once that has
\* returned, on the same stems.
StartRender(r) ==
    /\ renderPc[r] = "idle"
    /\ IF r = "first"
       THEN \E stems \in RenderStems, plan \in RenderPlans,
               mix_params \in RenderMixParams, meter \in MeterStates :
                renderIn' = [renderIn EXCEPT
                               ![r] = [status |-> "called", stems |-> stems,
                                       plan |-> plan, mix_params |-> mix_params,
                                       meter |-> meter]]
       ELSE /\ renderPc["first"] = "returned"
            /\ LET project_json ==
                       create_project_json(renderIn["first"].plan,
                                           renderIn["first"].mix_params)
               IN  \E meter \in MeterStates :
                       renderIn' = [renderIn EXCEPT
                                      ![r] = [status |-> "called",
                                              stems |-> renderIn["first"].stems,
                                              plan |-> project_json.plan,
                                              mix_params |-> project_json.mixParams,
                                              meter |-> meter]]
    /\ renderPc' = [renderPc EXCEPT ![r] = StageOrder[1]]
    /\ UNCHANGED <<renderAudio, renderLog, renderFiles>>
    /\ UNCHANGED <<planVars, keyVars, masterVars, jobVars, structVars, sepVars>>

\* Stage 1: transformed_stems = self._apply_transforms(stems, plan)
Transform(r) ==
    /\ renderPc[r] = "transform"
    /\ StageRuns(r, "transform")
    /\ \/ \E fallback \in SUBSET (renderIn[r].stems \cap KnownStems) :
             /\ renderAudio' = [renderAudio EXCEPT
                   ![r] = [status |-> "stems",
                           stems |-> _apply_transforms(renderIn[r].stems,
                                                       renderIn[r].plan, fallback)]]
             /\ renderPc' = [renderPc EXCEPT ![r] = NextStage("transform")]
       \/ RenderRaise(r, "transform")
    /\ UNCHANGED <<renderIn, renderFiles>>
    /\ UNCHANGED <<planVars, keyVars, masterVars, jobVars, structVars, sepVars>>

\* Stage 2: mixed_audio = self._mix_stems(transformed_stems, plan, mix_params);
\* sf.read may raise, and the addition of stems of unequal lengths does
Mix(r) ==
    /\ renderPc[r] = "mix"
    /\ StageRuns(r, "mix")
    /\ \/ IF MixBroadcastFails(renderAudio[r].stems, renderIn[r].plan)
          THEN RenderRaiseFrom(r, "mix", "ValueError")
          ELSE /\ renderAudio' = [renderAudio EXCEPT
                     ![r] = _mix_stems(renderAudio[r].stems, renderIn[r].plan,
                                       renderIn[r].mix_params)]
               /\ renderPc' = [renderPc EXCEPT ![r] = NextStage("mix")]
       \/ RenderRaise(r, "mix")
    /\ UNCHANGED <<renderIn, renderFiles>>
    /\ UNCHANGED <<planVars, keyVars, masterVars, jobVars, structVars, sepVars>>

\* Stage 3, one effect of _apply_mixing_effects: it runs if its switch in
\* mix_params is on (the default); filtfilt raises on audio of no samples
Effect(r, effect) ==
    /\ renderPc[r] = effect
    /\ IF MixGet(renderIn[r].mix_params, effect, TRUE)
       THEN /\ StageRuns(r, effect)
            /\ \/ /\ renderAudio[r].samples = "some"
                  /\ renderAudio' = [renderAudio EXCEPT ![r] = Processed(@, effect)]
                  /\ renderPc' = [renderPc EXCEPT ![r] = NextStage(effect)]
               \/ RenderRaise(r, effect)
       ELSE /\ renderPc' = [renderPc EXCEPT ![r] = NextStage(effect)]
            /\ UNCHANGED <<renderAudio, renderLog>>
    /\ UNCHANGED <<renderIn, renderFiles>>
    /\ UNCHANGED <<planVars, keyVars, masterVars, jobVars, structVars, sepVars>>

\* Stage 4: mastered_audio = self._master_audio(processed_audio); np.max
\* raises on audio of no samples
Master(r) ==
    /\ renderPc[r] = "master"
    /\ StageRuns(r, "master")
    /\ \/ /\ renderAudio[r].samples = "some"
          /\ renderAudio' = [renderAudio EXCEPT
                               ![r] = Processed(@, MasterPath(renderIn[r].meter))]
          /\ renderPc' = [renderPc EXCEPT ![r] = NextStage("master")]
       \/ RenderRaise(r, "master")
    /\ UNCHANGED <<renderIn, renderFiles>>
    /\ UNCHANGED <<planVars, keyVars, masterVars, jobVars, structVars, sepVars>>

\* output_path = self._save_output(mastered_audio); the temporary file is
\* created before sf.write can raise
Save(r) ==
    /\ renderPc[r] = "save"
    /\ StageRuns(r, "save")
    /\ renderFiles' = [renderFiles EXCEPT ![r] = @ \cup {OutputFile}]
    /\ \/ /\ renderPc' = [renderPc EXCEPT ![r] = "returned"]
          /\ UNCHANGED renderAudio
       \/ RenderRaise(r, "save")
    /\ UNCHANGED renderIn
    /\ UNCHANGED <<planVars, keyVars, masterVars, jobVars, structVars, sepVars>>

\* the requests of POST /separate that are served
RequestIds == {"req1", "req2"}

(***************************************************************************)
(* main_simple.py: POST /separate.  The loop over the separated stems      *)
(* uploads one stem per step; sepPc counts the stems uploaded, and is -1   *)
(* once an upload has raised.                                              *)
(***************************************************************************)
\* url = await storage.upload_file(stem_path, f"stems/{stem_name}")
SeparateUpload(q) ==
    /\ sepPc[q] \in 0 .. Len(StemOrder) - 1
    /\ \/ /\ store' = [store EXCEPT ![StemKey(StemOrder[sepPc[q] + 1])] = q]
          /\ sepPc' = [sepPc EXCEPT ![q] = @ + 1]
       \/ /\ sepPc' = [sepPc EXCEPT ![q] = -1]
          /\ UNCHANGED store
    /\ UNCHANGED <<jobStatus, jobStems, taskPc, localStems, tmpFiles, taskResult,
                   progressReply, ioAttempts>>
    /\ UNCHANGED <<planVars, keyVars, masterVars, structVars, renderVars>>

(***************************************************************************)
(* The initial state and the specifications.                               *)
(***************************************************************************)
Init ==
    /\ planReq = NoResult
    /\ planRes = NoResult
    /\ keyRes = [t \in TrackNames |-> NoResult]
    /\ masterIn = NoResult
    /\ masterOut = NoResult
    /\ jobStatus = [j \in JobIds |-> Absent]
    /\ jobStems = [j \in JobIds |-> <<>>]
    /\ taskPc = [j \in JobIds |-> "none"]
    /\ localStems = [j \in JobIds |-> <<>>]
    /\ tmpFiles = [j \in JobIds |-> {}]
    /\ store = [k \in StoreKeys |-> Absent]
    /\ taskResult = [j \in JobIds |-> NoResult]
    /\ progressReply = NoResult
    /\ ioAttempts = [j \in JobIds |-> 0]
    /\ structIn = NoResult
    /\ structRes = NoResult
    /\ renderIn = [r \in RenderIds |-> NoResult]
    /\ renderPc = [r \in RenderIds |-> "idle"]
    /\ renderAudio = [r \in RenderIds |-> NoResult]
    /\ renderLog = [r \in RenderIds |-> <<>>]
    /\ renderFiles = [r \in RenderIds |-> {}]
    /\ sepPc = [q \in RequestIds |-> 0]

NextPlan == PlanMashup \/ PlanRespond

SpecPlan == Init /\ [][NextPlan]_vars

NextKey == \E t \in TrackNames : AnalyzeKey(t)

SpecKey == Init /\ [][NextKey]_vars

NextMaster == MasterAudio \/ MasterReturn

SpecMaster == Init /\ [][NextMaster]_vars

NextJobs ==
    \E j \in JobIds :
        \/ render_mashup(j)
        \/ get_progress(j)
        \/ StartJob(j)
        \/ DownloadStem(j)
        \/ RenderJob(j)
        \/ UploadMashup(j)
        \/ SaveProjectJson(j)
        \/ UploadProject(j)

SpecJobs == Init /\ [][NextJobs]_vars

\* the steps of process_render_job for job j
TaskStep(j) ==
    \/ StartJob(j)
    \/ DownloadStem(j)
    \/ RenderJob(j)
    \/ UploadMashup(j)
    \/ SaveProjectJson(j)
    \/ UploadProject(j)

\* the render requests and the steps of their tasks; GET /progress reads
\* and writes nothing a task uses
NextTask == \E j \in JobIds : render_mashup(j) \/ TaskStep(j)

\* a background task that has been added runs on: each await and each call
\* of process_render_job returns or raises
SpecJobsLive ==
    Init /\ [][NextTask]_vars /\ \A j \in JobIds : WF_vars(TaskStep(j))

NextStructure == AnalyzeStructure \/ StructureReturn

SpecStructure == Init /\ [][NextStructure]_vars

NextRender ==
    \E r \in RenderIds :
        \/ StartRender(r)
        \/ Transform(r)
        \/ Mix(r)
        \/ \E effect \in {"auto_eq", "sidechain_ducking", "de_esser"} : Effect(r, effect)
        \/ Master(r)
        \/ Save(r)

SpecRender == Init /\ [][NextRender]_vars

NextSeparate == \E q \in RequestIds : SeparateUpload(q)

\* render jobs and separation requests, running concurrently
NextStore == NextJobs \/ NextSeparate

SpecStore == Init /\ [][NextStore]_vars

(***************************************************************************)
(* Properties of the planner, checked under SpecPlan.                      *)
(***************************************************************************)
PlanReturned == planReq.status = "called" /\ planRes.status = "returned"

\* both tracks carry a key of the 24-key table and its table label
TableTracks ==
    /\ planReq.trackA.key \in TableKeys
    /\ planReq.trackB.key \in TableKeys
    /\ planReq.trackA.camelot = key_map[planReq.trackA.key]
    /\ planReq.trackB.camelot = key_map[planReq.trackB.key]

MaxShift == max2(abs(planRes.keyShiftA), abs(planRes.keyShiftB))

\* C1: for every pair of the 24 keys and every valid recipe, the plan's
\* keyShiftA and keyShiftB both lie in [-3, +3].
C1_ShiftsWithinThree ==
    (PlanReturned /\ TableTracks) =>
        /\ -3 <= planRes.keyShiftA /\ planRes.keyShiftA <= 3
        /\ -3 <= planRes.keyShiftB /\ planRes.keyShiftB <= 3

\* C2: for every pair of the 24 keys, each track's camelot being the table
\* label of its key, a plan whose larger shift exceeds 3 carries the hint
\* advising key adjustment.
C2_LargeShiftHasHint ==
    (PlanReturned /\ TableTracks /\ MaxShift > 3) =>
        \E i \in DOMAIN planRes.qualityHints :
            planRes.qualityHints[i] = "Consider key adjustment for better harmony"

C2_Witness ==
    /\ PlanReturned /\ TableTracks
    /\ planReq.trackA.key = "C" /\ planReq.trackB.key = "G#"
    /\ planRes.keyShiftA = -4
    /\ planRes.qualityHints[1] = "Consider key adjustment for better harmony"

\* C3: for every pair of positive tempos, extreme ratios included, stretchA
\* and stretchB both lie in [0.5, 2.0].
C3_StretchInRange ==
    PlanReturned =>
        LET sa == planRes.stretchMap.stretchA
            sb == planRes.stretchMap.stretchB
        IN  /\ sa.d <= 2 * sa.n /\ sa.n <= 2 * sa.d
            /\ sb.d <= 2 * sb.n /\ sb.n <= 2 * sb.d

C3_Witness ==
    /\ PlanReturned
    /\ planReq.trackA.bpm = 60 /\ planReq.trackB.bpm = 200
    /\ planRes.stretchMap.stretchA = [n |-> 2, d |-> 1]
    /\ planRes.stretchMap.stretchB = [n |-> 1, d |-> 1]

\* the fraction s is target / bpm clamped into [1/2, 2]
IsClampedRatio(s, target, bpm) ==
    IF target > 2 * bpm THEN s.n = 2 * s.d
    ELSE IF 2 * target < bpm THEN 2 * s.n = s.d
    ELSE s.n * bpm = s.d * target

\* C4: targetBpm is the larger tempo, each stretch is targetBpm / bpm clamped
\* into [0.5, 2.0], and quality is "high" exactly when the larger stretch is
\* below 1.5 and "medium" otherwise.
C4_TempoAlignment ==
    PlanReturned =>
        LET a  == planReq.trackA.bpm
            b  == planReq.trackB.bpm
            sm == planRes.stretchMap
            below(s) == 2 * s.n < 3 * s.d
        IN  /\ sm.targetBpm \in {a, b} /\ sm.targetBpm >= a /\ sm.targetBpm >= b
            /\ IsClampedRatio(sm.stretchA, sm.targetBpm, a)
            /\ IsClampedRatio(sm.stretchB, sm.targetBpm, b)
            /\ sm.quality \in {"high", "medium"}
            /\ sm.quality = "high" <=> (below(sm.stretchA) /\ below(sm.stretchB))

\* the boundary: a stretch of exactly 1.5 is "medium"
C4_Witness ==
    /\ PlanReturned
    /\ planReq.trackA.bpm = 80 /\ planReq.trackB.bpm = 120
    /\ planRes.stretchMap.targetBpm = 120
    /\ planRes.stretchMap.stretchA = [n |-> 3, d |-> 2]
    /\ planRes.stretchMap.quality = "medium"

\* C5: create_plan with a recipe other than AoverB, BoverA, HybridDrums raises
\* the unknown-recipe error and returns no plan, whatever the analyses are;
\* with one of the three it does not raise that error.
C5_UnknownRecipe ==
    planReq.status = "called" =>
        LET known == planReq.recipe \in {"AoverB", "BoverA", "HybridDrums"}
            unknownError ==
                /\ planRes.status = "raised"
                /\ planRes.exc = "ValueError"
                /\ planRes.msg = "Unknown recipe: " \o planReq.recipe
        IN  /\ ~known => unknownError
            /\ known => ~unknownError

\* an unknown recipe is rejected even for analyses no plan can be made of
C5_Witness ==
    /\ planReq.status = "called"
    /\ planReq.recipe = "Remix"
    /\ planReq.trackA.sections = <<>>
    /\ planRes.status = "raised"
    /\ planRes.msg = "Unknown recipe: Remix"

(***************************************************************************)
(* Properties of key detection, checked under SpecKey.                     *)
(***************************************************************************)
\* Camelot number of each major root, in the order of keys (C, C#, ..., B)
MajorNumber == << 8, 3, 10, 5, 12, 7, 2, 9, 4, 11, 6, 1 >>

RootIndex(root) == CHOOSE i \in DOMAIN keys : keys[i] = root

\* the table label of a key: B ring for a major root; for a minor root the
\* A ring with the number of its relative major, three semitones up
TableLabel(mode, root) ==
    LET i == RootIndex(root)
    IN  IF mode = "major" THEN ToString(MajorNumber[i]) \o "B"
        ELSE ToString(MajorNumber[((i - 1 + 3) % 12) + 1]) \o "A"

\* C6: for each of the 24 outcomes of key detection the camelot label
\* returned is the table label of the key (A minor -> 8A), which is also the
\* label the planner's key table gives for the returned key string.
C6_CamelotIsTableLabel ==
    \A t \in TrackNames :
        keyRes[t].status = "returned" =>
            /\ keyRes[t].camelot = TableLabel(keyRes[t].mode, keyRes[t].root)
            /\ keyRes[t].key \in DOMAIN key_map
            /\ keyRes[t].camelot = key_map[keyRes[t].key]

\* C7: the key string is the root name for a major result and the root name
\* followed by "m" for a minor result, so the 24 outcomes yield 24 distinct
\* key strings, each an entry of the planner's key table.
C7_KeyStrings ==
    /\ \A t \in TrackNames :
        keyRes[t].status = "returned" =>
            /\ keyRes[t].key = IF keyRes[t].mode = "major" THEN keyRes[t].root
                               ELSE keyRes[t].root \o "m"
            /\ keyRes[t].key \in DOMAIN key_map
    /\ (keyRes["A"].status = "returned" /\ keyRes["B"].status = "returned"
        /\ <<keyRes["A"].mode, keyRes["A"].root>> # <<keyRes["B"].mode, keyRes["B"].root>>)
            => keyRes["A"].key # keyRes["B"].key

(***************************************************************************)
(* Properties of render jobs, checked under SpecJobs.                      *)
(***************************************************************************)
\* the status of a job that exists: queued until its task starts,
\* processing while the task runs, then the status of the task's result
LifecycleStatus(j) ==
    IF taskPc[j] = "pending" THEN "queued"
    ELSE IF taskPc[j] = "done" THEN taskResult[j].status
    ELSE "processing"

\* C8: a job is queued when accepted, processing once process_render_job
\* starts, then completed or failed for good; the progress query reports the
\* job's current status.
C8_ProgressReportsStatus ==
    [][\A j \in JobIds :
        (taskPc[j] # "none" /\ get_progress(j)) =>
            progressReply'.status = LifecycleStatus(j)]_vars

\* C9: the result is completed only after both the mashup audio and the
\* project descriptor have been uploaded, and then carries both URLs; a
\* failed result carries an error message and no output URL.
C9_CompletedAfterUploads ==
    \A j \in JobIds :
        /\ taskResult[j].status = "completed" =>
            /\ store["mashups/" \o j \o ".wav"] = j
            /\ store["projects/" \o j \o ".json"] = j
            /\ taskResult[j].mashup_url = UrlOf("mashups/" \o j \o ".wav")
            /\ taskResult[j].project_json_url = UrlOf("projects/" \o j \o ".json")
        /\ taskResult[j].status = "failed" =>
            /\ "error" \in DOMAIN taskResult[j]
            /\ "mashup_url" \notin DOMAIN taskResult[j]
            /\ "project_json_url" \notin DOMAIN taskResult[j]

\* one job completed, and another failed after its mashup was uploaded
C9_Witness ==
    \E j, k \in JobIds :
        /\ taskResult[j].status = "completed"
        /\ store[ProjectKey(j)] = j
        /\ taskResult[k].status = "failed"
        /\ taskResult[k].error = "upload_project"

(***************************************************************************)
(* Properties of mastering, checked under SpecMaster.                      *)
(***************************************************************************)
\* C10: for every mix the mastered output has max|y| <= 10^(-headroom_db/20),
\* with the loudness meter and with the RMS fallback alike.  Stated for the
\* outputs made of finite samples.
C10_HeadroomBound ==
    (masterIn.status = "called" /\ masterOut.kind = "pcm") =>
        masterOut.peak <= -HeadroomCb


\* C11: for every mix whose unmastered integrated loudness is finite, the
\* integrated loudness of the mastered output (after LUFS normalization, the
\* clipping guard and the headroom attenuation) lies within half a LUFS of
\* target_lufs.
C11_MasteredLoudness ==
    (/\ masterIn.status = "called"
     /\ masterIn.meter = "ok"
     /\ integrated_loudness(masterIn.audio) # NegInf
     /\ masterOut.kind = "pcm") =>
        LET lufs == integrated_loudness(masterOut)
        IN  /\ lufs # NegInf
            /\ TargetLufs - 50 <= lufs
            /\ lufs <= TargetLufs + 50


(***************************************************************************)
(* Properties of structure analysis, checked under SpecStructure.          *)
(***************************************************************************)
\* C12: for every strictly increasing sequence of boundary times inside
\* (0, duration), the sections returned, when there are any, partition
\* [0, duration]: the first starts at 0, each starts where the previous one
\* ends, the last ends at duration, and every section has start < end.
C12_SectionsPartition ==
    (/\ structIn.status = "called"
     /\ \A i \in DOMAIN structIn.times : structIn.times[i] < structIn.duration
     /\ structRes.sections # <<>>) =>
        LET sections == structRes.sections
            n == Len(sections)
        IN  /\ sections[1].start = 0
            /\ \A i \in 2 .. n : sections[i].start = sections[i - 1].end
            /\ sections[n].end = structIn.duration
            /\ \A i \in 1 .. n : sections[i].start < sections[i].end

\* three peaks inside a track of six time units give three sections
C12_Witness ==
    /\ structIn.status = "called"
    /\ structIn.times = << 1, 3, 4 >>
    /\ structIn.duration = 6
    /\ structRes.sections =
        << [start |-> 0, end |-> 1, label |-> "chorus"],
           [start |-> 1, end |-> 3, label |-> "verse"],
           [start |-> 3, end |-> 6, label |-> "bridge"] >>


(***************************************************************************)
(* Properties of rendering, checked under SpecRender.                      *)
(***************************************************************************)
\* C13: two renders that use the same stem files and the plan, mixParams and
\* settings recorded by create_project_json produce identical output audio,
\* and the descriptor records the plan and mix parameters unchanged together
\* with the sample rate, target LUFS and headroom the renderer uses.  Stated
\* for two renders that find the loudness meter in the same state.
C13_RenderDeterministic ==
    /\ (/\ renderPc["first"] = "returned"
        /\ renderPc["again"] = "returned"
        /\ renderIn["again"].meter = renderIn["first"].meter) =>
            renderAudio["again"] = renderAudio["first"]
    /\ \A r \in RenderIds :
        renderIn[r].status = "called" =>
            LET project_json ==
                    create_project_json(renderIn[r].plan, renderIn[r].mix_params)
            IN  /\ project_json.plan = renderIn[r].plan
                /\ project_json.mixParams = renderIn[r].mix_params
                /\ project_json.settings.sampleRate = 44100
                /\ project_json.settings.targetLUFS = TargetLufs
                /\ project_json.settings.headroomDB = HeadroomCb

\* C17: whenever any of the four stems vocals, drums, bass, other is absent
\* from the stems input, render fails: it does not return and it produces no
\* output file.
C17_MissingStemFails ==
    \A r \in RenderIds :
        (/\ renderIn[r].status = "called"
         /\ \E stem_name \in {"vocals", "drums", "bass", "other"} :
                stem_name \notin renderIn[r].stems) =>
            /\ renderPc[r] # "returned"
            /\ OutputFile \notin renderFiles[r]

\* C20: within one render the stages run strictly in the order transform,
\* mix, masking EQ, sidechain ducking, de-esser, mastering, emit: none out of
\* order, none twice, none before the stages ahead of it have run or were
\* switched off; an exception in a stage prevents every later stage, and an
\* output file exists only when the emit stage has been reached.
C20_StagesInOrder ==
    \A r \in RenderIds :
        LET order == << "transform", "mix", "auto_eq", "sidechain_ducking",
                        "de_esser", "master", "save" >>
            at(stage) == CHOOSE i \in 1 .. 7 : order[i] = stage
            log == renderLog[r]
            ran == {log[i] : i \in DOMAIN log}
            switchedOff(stage) ==
                /\ stage \in {"auto_eq", "sidechain_ducking", "de_esser"}
                /\ stage \in DOMAIN renderIn[r].mix_params
                /\ ~renderIn[r].mix_params[stage]
        IN  /\ \A i \in DOMAIN log : log[i] \in {order[k] : k \in 1 .. 7}
            /\ \A i, k \in DOMAIN log : i < k => at(log[i]) < at(log[k])
            /\ \A i \in DOMAIN log : \A k \in 1 .. at(log[i]) - 1 :
                    order[k] \in ran \/ switchedOff(order[k])
            /\ renderPc[r] = "raised" =>
                    renderAudio[r].msg = "Rendering failed: " \o log[Len(log)]
            /\ renderPc[r] = "returned" => log[Len(log)] = "save"
            /\ OutputFile \in renderFiles[r] => "save" \in ran

\* mastering raised after every stage before it had run: no emit, no file
C20_Witness ==
    /\ renderPc["first"] = "raised"
    /\ renderLog["first"] =
        << "transform", "mix", "auto_eq", "sidechain_ducking", "de_esser", "master" >>
    /\ renderAudio["first"].msg = "Rendering failed: master"
    /\ renderFiles["first"] = {}


(***************************************************************************)
(* Properties of the orchestrator and the artifact store, checked under    *)
(* SpecJobs and SpecStore.                                                 *)
(***************************************************************************)
\* C14: when a render job terminates, by success or by a failure at any
\* step, every temporary file created for it (downloaded stems, transformed
\* stems, rendered output, project JSON file) has been unlinked.
C14_TempFilesUnlinked ==
    \A j \in JobIds : taskPc[j] = "done" => tmpFiles[j] = {}

\* the string id occurs in the string key
Contains(key, id) ==
    \E i \in 1 .. Len(key) - Len(id) + 1 : SubSeq(key, i, i + Len(id) - 1) = id

\* C15: under any interleaving of requests and jobs, every write to the
\* artifact store uses a key that contains the writer's id, and no write
\* replaces what another job or request has put under the key.
C15_KeysNameTheWriter ==
    [][\A k \in DOMAIN store :
        store'[k] # store[k] =>
            /\ Contains(k, store'[k])
            /\ store[k] = Absent]_vars

\* C16: a job that failed on a stem fetch or an artifact upload had tried
\* that operation three times (the call and two retries); no operation is
\* tried more often than that.
C16_TransientRetried ==
    \A j \in JobIds :
        /\ ioAttempts[j] <= 3
        /\ (/\ taskResult[j].status = "failed"
            /\ taskResult[j].error \in {"download", "upload_mashup", "upload_project"})
                => ioAttempts[j] = 3


(***************************************************************************)
(* Properties of the key compatibility matrix, checked under SpecPlan.     *)
(***************************************************************************)
\* the number 1..12 and the ring "A" or "B" of a Camelot label
LabelNumber(label) ==
    CHOOSE n \in 1 .. 12 : ToString(n) = SubSeq(label, 1, Len(label) - 1)

LabelRing(label) == SubSeq(label, Len(label), Len(label))

\* the place of a label on the ring of 24: 1A .. 12A, then 1B .. 12B
RingPlace(label) ==
    LabelNumber(label) - 1 + (IF LabelRing(label) = "B" THEN 12 ELSE 0)

\* the smaller of the clockwise and the counter-clockwise number of steps
RingDistance(a, b) ==
    min2((RingPlace(b) - RingPlace(a)) % 24, (RingPlace(a) - RingPlace(b)) % 24)

Bucket(d) ==
    CASE d = 0 -> 0
      [] d = 1 -> 1
      [] d = 2 -> 2
      [] d \in 3 .. 4 -> 3
      [] d \in 5 .. 6 -> 4
      [] OTHER -> 5

C19_OppositeKeysScoreWorst ==
    (/\ PlanReturned
     /\ planReq.trackA.camelot \in CamelotLabels
     /\ planReq.trackB.camelot \in CamelotLabels) =>
        LET a == planReq.trackA.camelot
            b == planReq.trackB.camelot
            steps == abs(LabelNumber(b) - LabelNumber(a))
        IN  /\ a = b => key_compatibility[a][b] = 0
            /\ (LabelRing(a) = LabelRing(b) /\ steps = 1) =>
                    key_compatibility[a][b] = 1
            /\ (LabelRing(a) = LabelRing(b) /\ steps = 6) =>
                    key_compatibility[a][b] = 5


(***************************************************************************)
(* Properties of the transform, mix and effect stages, checked under       *)
(* SpecRender.                                                             *)
(***************************************************************************)
\* the track a stem comes from, as the recipe fixes it: the vocals of A over
\* the backing of B, or the other way round
OriginTrack(stem_name, recipe) ==
    IF recipe = "AoverB"
    THEN (IF stem_name = "vocals" THEN "A" ELSE "B")
    ELSE (IF stem_name = "vocals" THEN "B" ELSE "A")

\* C21: after the transform stage every stem carries the stretch ratio and
\* the semitone shift of its originating track: under AoverB the vocals have
\* those of A and drums, bass, other those of B; under BoverA the vocals have
\* those of B and drums, bass, other those of A.
C21_StemsFollowTheirTrack ==
    \A r \in RenderIds :
        (/\ renderAudio[r].status = "stems"
         /\ renderIn[r].plan.recipe \in {"AoverB", "BoverA"}) =>
            \A t \in renderAudio[r].stems :
                LET plan == renderIn[r].plan
                    track == OriginTrack(t.name, plan.recipe)
                IN  /\ t.tempo = (IF track = "A" THEN plan.stretchMap.stretchA
                                  ELSE plan.stretchMap.stretchB)
                    /\ t.pitch = (IF track = "A" THEN plan.keyShiftA
                                  ELSE plan.keyShiftB)

\* the transformed stems do not all have the same length
LengthsDiffer(transformed) ==
    \E t, u \in transformed : t.length # u.length

\* C22: a mix stage that has read its stems and finds them of different
\* lengths succeeds, and the mix is as long as the longest stem.
C22_MixPadsToLongest ==
    [][\A r \in RenderIds :
          (/\ renderPc[r] = "mix"
           /\ renderPc'[r] # "mix"
           /\ LengthsDiffer(renderAudio[r].stems)
           /\ ~(renderAudio'[r].status = "raised"
                /\ renderAudio'[r].cause = "Exception")) =>
              /\ renderPc'[r] = NextStage("mix")
              /\ renderAudio'[r].status = "audio"
              /\ renderAudio'[r].length = max_length(renderAudio[r].stems)]_vars

\* C23: with auto_eq enabled the band-stop filter has not acted on the vocals
\* of the mix: their contribution is the one of a render without auto_eq.
C23_AutoEqSparesVocals ==
    \A r \in RenderIds :
        (/\ renderAudio[r].status = "audio"
         /\ MixGet(renderIn[r].mix_params, "auto_eq", TRUE)
         /\ Contribution(renderAudio[r], "vocals").parts # {}) =>
            \A i \in DOMAIN Contribution(renderAudio[r], "vocals").effects :
                Contribution(renderAudio[r], "vocals").effects[i] # "auto_eq"


(***************************************************************************)
(* Properties of the target key and of the section pairing, checked under  *)
(* SpecPlan.                                                               *)
(***************************************************************************)
\* the characters of a Camelot label in the order a string comparison uses
LabelChars == << "0", "1", "2", "3", "4", "5", "6", "7", "8", "9", "A", "B" >>

CharRank(c) == CHOOSE i \in DOMAIN LabelChars : LabelChars[i] = c

\* a < b as strings
RECURSIVE LexLess(_, _)
LexLess(a, b) ==
    IF b = "" THEN FALSE
    ELSE IF a = "" THEN TRUE
    ELSE LET ca == CharRank(SubSeq(a, 1, 1))
             cb == CharRank(SubSeq(b, 1, 1))
         IN  IF ca # cb THEN ca < cb
             ELSE LexLess(SubSeq(a, 2, Len(a)), SubSeq(b, 2, Len(b)))

\* dist(camelot_a, t) + dist(camelot_b, t)
DistanceSum(a, b, t) == RingDistance(a, t) + RingDistance(b, t)

\* C24: the target key of a plan is one of the 24 Camelot labels, no label
\* has a smaller sum of ring distances to the labels of the two tracks, and
\* of the labels with that smallest sum it is the lexicographically lowest.
C24_TargetKeyIsLowestArgmin ==
    (PlanReturned /\ TableTracks) =>
        LET a == planReq.trackA.camelot
            b == planReq.trackB.camelot
            t == planRes.targetKey
        IN  /\ t \in CamelotLabels
            /\ \A u \in CamelotLabels :
                /\ DistanceSum(a, b, t) <= DistanceSum(a, b, u)
                /\ (DistanceSum(a, b, u) = DistanceSum(a, b, t) /\ u # t) =>
                        LexLess(t, u)


\* the accumulated-cost matrix of the two tracks of the request
RequestDtw ==
    LET featuresA == _extract_section_features(planReq.trackA.sections,
                                               planReq.trackA.beats)
        featuresB == _extract_section_features(planReq.trackB.sections,
                                               planReq.trackB.beats)
        m == Len(featuresA)
        n == Len(featuresB)
    IN  DtwFill(1, 1, m, n,
                [i \in 1 .. m |-> [j \in 1 .. n |->
                    FeatureDistance(featuresA[i], featuresB[j])]],
                DtwInit(m, n))

\* the cells (i, j) of the matrix that the section pairs of the plan name, in
\* the order of the pairs
PlanPath ==
    [k \in DOMAIN planRes.sectionPairs |->
        << CHOOSE i \in DOMAIN planReq.trackA.sections :
               planReq.trackA.sections[i] = planRes.sectionPairs[k].sectionA,
           CHOOSE j \in DOMAIN planReq.trackB.sections :
               planReq.trackB.sections[j] = planRes.sectionPairs[k].sectionB >>]

\* C25: the pairs of a plan end at cell (m, n), and each pair but the first
\* is preceded by that one of (i-1, j), (i, j-1), (i-1, j-1) which has the
\* smallest accumulated cost; when (i-1, j-1) has the smallest cost, alone or
\* tied, it is the one taken.
C25_BacktrackPrefersDiagonal ==
    PlanReturned =>
        LET path == PlanPath
            dtw  == RequestDtw
        IN  /\ path # << >>
            /\ path[Len(path)] = << Len(planReq.trackA.sections),
                                    Len(planReq.trackB.sections) >>
            /\ \A k \in 2 .. Len(path) :
                LET i    == path[k][1]
                    j    == path[k][2]
                    pred == path[k - 1]
                    low  == InfMin3(dtw[<<i - 1, j>>], dtw[<<i, j - 1>>],
                                    dtw[<<i - 1, j - 1>>])
                IN  /\ pred \in {<<i - 1, j>>, <<i, j - 1>>, <<i - 1, j - 1>>}
                    /\ dtw[pred] = low
                    /\ dtw[<<i - 1, j - 1>>] = low => pred = <<i - 1, j - 1>>

\* C26: for m >= 1 sections of A and n >= 1 of B the section pairs of a plan
\* form a warping path: the first pair is (section 0, section 0), the last
\* (section m-1, section n-1), each pair advances the index of A, of B or
\* of both by exactly one, and there are at least max(m, n) and at most
\* m + n - 1 pairs, numbered 0, 1, ... in the field alignment.
C26_PairsFormWarpingPath ==
    PlanReturned =>
        LET path == PlanPath
            m    == Len(planReq.trackA.sections)
            n    == Len(planReq.trackB.sections)
        IN  /\ m >= 1 /\ n >= 1
            /\ Len(path) >= max2(m, n)
            /\ Len(path) <= m + n - 1
            /\ path[1] = <<1, 1>>
            /\ path[Len(path)] = <<m, n>>
            /\ \A k \in 2 .. Len(path) :
                path[k] \in { << path[k-1][1] + 1, path[k-1][2] >>,
                              << path[k-1][1], path[k-1][2] + 1 >>,
                              << path[k-1][1] + 1, path[k-1][2] + 1 >> }
            /\ \A k \in DOMAIN path :
                planRes.sectionPairs[k].alignment = k - 1

\* C26 witness: a plan of two sections against two whose path has three
\* pairs, m + n - 1, so that a section is paired twice; and the path from
\* (0, 0) to (m-1, n-1) is there
C26_Witness ==
    /\ PlanReturned
    /\ Len(planReq.trackA.sections) = 2
    /\ Len(planReq.trackB.sections) = 2
    /\ Len(planRes.sectionPairs) = 3
    /\ PlanPath[1] = <<1, 1>>
    /\ PlanPath[3] = <<2, 2>>


(***************************************************************************)
(* A property of the structure analysis, checked under SpecStructure.      *)
(***************************************************************************)
\* C27: n >= 1 boundaries b1 < ... < bn inside the track give n + 1
\* sections: the section of index i ends at boundary bi and the next one
\* starts there, the first starts at 0 and the last ends at the duration.
C27_EveryBoundarySplits ==
    (/\ structIn.status = "called"
     /\ structIn.times # << >>
     /\ \A i \in DOMAIN structIn.times : structIn.times[i] < structIn.duration) =>
        LET sections == structRes.sections
            times    == structIn.times
            n        == Len(times)
        IN  /\ Len(sections) = n + 1
            /\ sections[1].start = 0
            /\ \A i \in 1 .. n :
                /\ sections[i].end = times[i]
                /\ sections[i + 1].start = times[i]
            /\ sections[n + 1].end = structIn.duration


(***************************************************************************)
(* Properties of the end of a render job, checked under SpecJobsLive and   *)
(* SpecJobs.                                                               *)
(***************************************************************************)
\* the steps of process_render_job that can raise into its except branch
RaisingSteps == {"download", "render", "upload_mashup", "save_project_json",
                 "upload_project"}

\* process_render_job has returned for job j: a completed result, or a
\* failed one that carries the text of the error
ReturnedResult(j) ==
    /\ taskPc[j] = "done"
    /\ taskResult[j].job_id = j
    /\ \/ taskResult[j].status = "completed"
       \/ /\ taskResult[j].status = "failed"
          /\ taskResult[j].error \in RaisingSteps

C29_FailedJobPublishesNothing ==
    \A j \in JobIds :
        (taskPc[j] = "done" /\ taskResult[j].status = "failed") =>
            /\ store[MashupKey(j)] # j
            /\ store[ProjectKey(j)] # j


(***************************************************************************)
(* A property of the tempo alignment, checked under SpecPlan.              *)
(***************************************************************************)
\* bpm * stretch = targetBpm, the stretch being the fraction s
ReachesTarget(bpm, s, target) == bpm * s.n = target * s.d

\* the faster track is not stretched and the slower one is not slowed down
FasterKeepsTempo(a, b, sm) ==
    /\ a >= b => sm.stretchA.n = sm.stretchA.d
    /\ b >= a => sm.stretchB.n = sm.stretchB.d
    /\ sm.stretchA.n >= sm.stretchA.d
    /\ sm.stretchB.n >= sm.stretchB.d

\* C30 as stated: for every pair of tempos, those of a ratio above 2
\* included, bpm_a * stretchA = bpm_b * stretchB = targetBpm, the faster
\* track has stretch 1 and the slower one a stretch of at least 1.
C30_StretchesReachTarget ==
    PlanReturned =>
        LET a  == planReq.trackA.bpm
            b  == planReq.trackB.bpm
            sm == planRes.stretchMap
        IN  /\ ReachesTarget(a, sm.stretchA, sm.targetBpm)
            /\ ReachesTarget(b, sm.stretchB, sm.targetBpm)
            /\ FasterKeepsTempo(a, b, sm)

\* C30 as amended: the faster track has stretch 1 and reaches targetBpm, its
\* own tempo; the slower track has a stretch of at least 1 and reaches
\* targetBpm when the ratio of the tempos is at most 2; when the ratio
\* exceeds 2 its stretch is 2.0 and twice its tempo stays below targetBpm.
C30_StretchesReachTargetWithinClamp ==
    PlanReturned =>
        LET a    == planReq.trackA.bpm
            b    == planReq.trackB.bpm
            sm   == planRes.stretchMap
            fast == max2(a, b)
            slow == min2(a, b)
            s    == IF a <= b THEN sm.stretchA ELSE sm.stretchB
        IN  /\ sm.targetBpm = fast
            /\ FasterKeepsTempo(a, b, sm)
            /\ fast <= 2 * slow =>
                    /\ ReachesTarget(a, sm.stretchA, sm.targetBpm)
                    /\ ReachesTarget(b, sm.stretchB, sm.targetBpm)
            /\ fast > 2 * slow =>
                    /\ s.n = 2 * s.d
                    /\ ~ReachesTarget(slow, s, sm.targetBpm)
                    /\ slow * s.n < sm.targetBpm * s.d

\* C30 witness: tempos of ratio 1.6, the slower track stretched to the
\* faster one's tempo
C30_Witness ==
    /\ PlanReturned
    /\ planReq.trackA.bpm = 100 /\ planReq.trackB.bpm = 160
    /\ planRes.stretchMap.targetBpm = 160
    /\ planRes.stretchMap.stretchA = [n |-> 8, d |-> 5]
    /\ planRes.stretchMap.stretchB = [n |-> 1, d |-> 1]

====
